---- MODULE Spec2Model ----
(***************************************************************************)
(* Model of papertty/drivers/drivers_4in2v2.py: the EPD4in2v2 driver of    *)
(* the Waveshare 4.2" e-paper module v2.  The driver keeps a bit-packed    *)
(* frame buffer, merges bitmaps into it and pushes it to the controller    *)
(* through command/data frames.  Every public method is one action; the    *)
(* console lines, pin writes, delays and bus frames a call produces are    *)
(* recorded, in order, in the variable log.                                *)
(***************************************************************************)
EXTENDS Integers, Sequences, FiniteSets

(***************************************************************************)
(* Bounds.  The real panel is 400 x 300 (width a multiple of 8); the model *)
(* keeps the shape (width = 8 * WidthBytes) on a small panel.              *)
(***************************************************************************)
WidthBytes == 2

MaxHeight == 3

MaxCalls == 3

\* the panel of the driver, as __init__ sets it; the literal bytes of the address
\* window are those of this panel, whatever the size of the panel of the model
PanelWidth == 400

PanelHeight == 300

width == 8 * WidthBytes

height == MaxHeight

VARIABLES
  frame_buffer,     \* self.frame_buffer: list of bytes, 1 bit per pixel
  partial_refresh,  \* self.partial_refresh
  gray,             \* self.gray
  state,            \* controller state driven by the calls: Uninitialized/Ready/Sleeping
  ram24,            \* bytes last written to the primary RAM plane (opcode 0x24)
  ram26,            \* bytes last written to the secondary RAM plane (opcode 0x26)
  log,              \* what the last call printed and put on the pins and the bus
  call,             \* the last state-changing call: its name, arguments, result
  image_out,        \* image returned by frame_buffer_to_image, if it was the last call
  ncalls,           \* number of state-changing calls made so far
  DC_PIN,           \* level of the data/command line, written by send_command/send_data
  CS_PIN,           \* level of the chip-select line (0 is asserted)
  BUSY_PIN,         \* level of the busy line, driven by the controller (1 is busy)
  thread,           \* per calling thread: the method it runs and where it is in it
  xfer,             \* the last spi_transfer: who sent which byte, as what, at which levels
  reg,              \* the controller: the opcode it is in, the data bytes it got for it
  serial,           \* whether the callers serialize their calls (an external lock)
  suspended         \* the thread that was preempted in the middle of a call, or 0

\* the lines, the bus and the calling threads, as the step-by-step specifications see them
wire == <<DC_PIN, CS_PIN, BUSY_PIN, thread, xfer, reg, serial, suspended>>

vars == <<frame_buffer, partial_refresh, gray, state, ram24, ram26, log, call,
          image_out, ncalls, wire>>

(***************************************************************************)
(* Bit arithmetic on one byte with a single-bit mask.                      *)
(***************************************************************************)
\* 0b10000000 >> irem
Mask(irem) == \h80 \div (2 ^ irem)

\* byte & mask, for a single-bit mask
BitAnd(byte, mask) == IF (byte \div mask) % 2 = 1 THEN mask ELSE 0

\* byte | mask, for a single-bit mask
BitOr(byte, mask) == IF (byte \div mask) % 2 = 1 THEN byte ELSE byte + mask

\* byte & ~mask, for a single-bit mask
BitClear(byte, mask) == IF (byte \div mask) % 2 = 1 THEN byte - mask ELSE byte

(***************************************************************************)
(* Images.  A mode-'1' bitmap: size and pixel values (0 black, 255 white). *)
(* px is indexed by <<i, j>>, i the column and j the row.                  *)
(***************************************************************************)
\* Image.new('1', (w, h), color)
ImageNew(w, h, color) ==
  [w |-> w, h |-> h, px |-> [p \in (0 .. w - 1) \X (0 .. h - 1) |-> color]]

\* a bitmap whose pixels alternate, starting with white at (0, 0)
ImageChecker(w, h) ==
  [w |-> w, h |-> h,
   px |-> [p \in (0 .. w - 1) \X (0 .. h - 1) |->
             IF (p[1] + p[2]) % 2 = 0 THEN 255 ELSE 0]]

(***************************************************************************)
(* set_frame_buffer: the double loop over the image, row by row.           *)
(***************************************************************************)
\* variant of SetPixel without the else branch: a zero pixel leaves the bit as it was
SetPixel_never_clears(byte, mask, pixel) ==
  IF pixel # 0 THEN BitOr(byte, mask) ELSE byte

\* variant of SetPixel whose else branch is &= mask, not &= ~mask
SetPixel_and_mask(byte, mask, pixel) ==
  IF pixel # 0 THEN BitOr(byte, mask) ELSE BitAnd(byte, mask)

\* the body of the inner loop, applied to the byte it addresses
SetPixel(byte, mask, pixel) ==
  IF pixel # 0 THEN BitOr(byte, mask) ELSE BitClear(byte, mask)

\* variant of ByteIndex whose row offset forgets the width: one byte per row
ByteIndex_one_byte_rows(px, py) == (px \div 8) + py

\* index (0-based) of the byte holding pixel (px, py) of the panel
ByteIndex(px, py) == (px \div 8) + ((py * width) \div 8)

\* the inner loop: the frame buffer after pixels 0 .. n-1 of row j of the image
MergeRow(fb, x, y, im, j, n) ==
  LET after[k \in 0 .. n] ==
        IF k = 0 THEN fb
        ELSE LET before == after[k - 1]
                 i == k - 1
                 idx == ByteIndex(x + i, y + j) + 1
                 mask == Mask((x + i) % 8)
             IN [before EXCEPT ![idx] = SetPixel(before[idx], mask, im.px[<<i, j>>])]
  IN after[n]

\* the outer loop: the frame buffer after rows 0 .. m-1 of the image
\* (b ranges over the one frame buffer the rows before left)
MergeRows(fb, x, y, im, m) ==
  LET after[k \in 0 .. m] ==
        IF k = 0 THEN fb
        ELSE CHOOSE next \in
               {MergeRow(b, x, y, im, k - 1, im.w) : b \in {after[k - 1]}} : TRUE
  IN after[m]

set_frame_buffer(fb, x, y, im) == MergeRows(fb, x, y, im, im.h)

(***************************************************************************)
(* frame_buffer_to_image: a width x height image read back from the bits.  *)
(***************************************************************************)
frame_buffer_to_image(fb) ==
  [w |-> width, h |-> height,
   px |-> [p \in (0 .. width - 1) \X (0 .. height - 1) |->
             BitAnd(fb[ByteIndex(p[1], p[2]) + 1], Mask(p[1] % 8))]]

(***************************************************************************)
(* The log of a call: events <<kind, values>>.                             *)
(*   "print"     a console line (the method name)                          *)
(*   "draw"      the console line of draw: x, y, image width and height    *)
(*   "epd_init"  the transport bring-up, with the status it returned       *)
(*   "rst"       a write to RST_PIN;  "delay" a delay in ms                *)
(*   "cmd"       send_command(c): one command frame                        *)
(*   "data"      send_data(d): one data frame of one or many bytes         *)
(*   "idle"      wait_until_idle returned: BUSY_PIN was read not busy      *)
(***************************************************************************)
Say(name) == << <<"print", <<name>>>> >>

send_command(c) == << <<"cmd", <<c>>>> >>

\* send_data with a single value
send_data(d) == << <<"data", <<d>>>> >>

\* send_data with a list
send_data_list(l) == << <<"data", l>> >>

wait_until_idle == Say("wait_until_idle") \o << <<"idle", <<0>>>> >>

reset ==
  Say("reset") \o
  << <<"rst", <<1>>>>, <<"delay", <<100>>>>,
     <<"rst", <<0>>>>, <<"delay", <<2>>>>,
     <<"rst", <<1>>>>, <<"delay", <<100>>>> >>

\* variant of turn_on_display that does not wait after the activation
turn_on_display_no_wait ==
  Say("turn_on_display") \o send_command(\h22) \o send_data(\hF7) \o
  send_command(\h20)

turn_on_display ==
  Say("turn_on_display") \o send_command(\h22) \o send_data(\hF7) \o
  send_command(\h20) \o wait_until_idle

turn_on_display_partial ==
  Say("turn_on_display_partial") \o send_command(\h22) \o send_data(\hFF) \o
  send_command(\h20) \o wait_until_idle

\* variant of AddressWindow that sends three bytes, not four, after 0x45
AddressWindow_short_y ==
  send_command(\h44) \o send_data(\h00) \o send_data(\h31) \o
  send_command(\h45) \o send_data(\h00) \o send_data(\h00) \o
                        send_data(\h2B) \o
  send_command(\h4E) \o send_data(\h00) \o
  send_command(\h4F) \o send_data(\h00) \o send_data(\h00)

\* variant of AddressWindow whose X window ends at ceil(400/8), one byte too far
AddressWindow_x_end_over ==
  send_command(\h44) \o send_data(\h00) \o send_data(\h32) \o
  send_command(\h45) \o send_data(\h00) \o send_data(\h00) \o
                        send_data(\h2B) \o send_data(\h01) \o
  send_command(\h4E) \o send_data(\h00) \o
  send_command(\h4F) \o send_data(\h00) \o send_data(\h00)

\* the RAM address window and counters, as init, init_fast and display_partial send them
\* (the bytes are literals in the source, those of the 400 x 300 panel)
AddressWindow ==
  send_command(\h44) \o send_data(\h00) \o send_data(\h31) \o
  send_command(\h45) \o send_data(\h00) \o send_data(\h00) \o
                        send_data(\h2B) \o send_data(\h01) \o
  send_command(\h4E) \o send_data(\h00) \o
  send_command(\h4F) \o send_data(\h00) \o send_data(\h00)

linewidth == IF width % 8 = 0 THEN width \div 8 ELSE (width \div 8) + 1

\* [0xff] * n
Repeat(b, n) == [k \in 1 .. n |-> b]

\* variant of clear that sends opcode 0x26 without the bytes of the plane
clear_no_secondary_bytes ==
  Say("clear") \o
  send_command(\h24) \o send_data_list(Repeat(\hFF, height * linewidth)) \o
  send_command(\h26) \o
  turn_on_display

clear ==
  Say("clear") \o
  send_command(\h24) \o send_data_list(Repeat(\hFF, height * linewidth)) \o
  send_command(\h26) \o send_data_list(Repeat(\hFF, height * linewidth)) \o
  turn_on_display

\* variant of display_full that sends a white plane, not the frame buffer, after 0x26
display_full_white_secondary(fb) ==
  Say("display_full") \o
  send_command(\h24) \o send_data_list(fb) \o
  send_command(\h26) \o send_data_list(Repeat(\hFF, Len(fb))) \o
  turn_on_display

display_full(fb) ==
  Say("display_full") \o
  send_command(\h24) \o send_data_list(fb) \o
  send_command(\h26) \o send_data_list(fb) \o
  turn_on_display

\* variant of display_partial that writes the RAM before the address window is set
display_partial_window_late(fb) ==
  Say("display partial") \o
  send_command(\h3C) \o send_data(\h80) \o
  send_command(\h21) \o send_data(\h00) \o send_data(\h00) \o
  send_command(\h3C) \o send_data(\h80) \o
  send_command(\h24) \o send_data_list(fb) \o
  AddressWindow \o
  turn_on_display_partial

display_partial(fb) ==
  Say("display partial") \o
  send_command(\h3C) \o send_data(\h80) \o
  send_command(\h21) \o send_data(\h00) \o send_data(\h00) \o
  send_command(\h3C) \o send_data(\h80) \o
  AddressWindow \o
  send_command(\h24) \o send_data_list(fb) \o
  turn_on_display_partial

(***************************************************************************)
(* init and init_fast after self.partial_refresh and self.gray are set:    *)
(* the bring-up and, when it returns 0, the configuration sequence.        *)
(***************************************************************************)
epd_init(status) == << <<"epd_init", <<status>>>> >>

\* variant of init that ignores the status of epd_init and carries on
init_noabort(status) ==
  Say("init") \o epd_init(status) \o
  reset \o wait_until_idle \o
  send_command(\h12) \o wait_until_idle \o
  send_command(\h21) \o send_data(\h40) \o send_data(\h00) \o
  send_command(\h3C) \o send_data(\h05) \o
  send_command(\h11) \o send_data(\h03) \o
  AddressWindow \o wait_until_idle \o
  clear

\* variant of init that sets the address window before the data entry mode
init_window_first(status) ==
  Say("init") \o epd_init(status) \o
  IF status # 0 THEN <<>>
  ELSE reset \o wait_until_idle \o
       send_command(\h12) \o wait_until_idle \o
       send_command(\h21) \o send_data(\h40) \o send_data(\h00) \o
       send_command(\h3C) \o send_data(\h05) \o
       AddressWindow \o
       send_command(\h11) \o send_data(\h03) \o wait_until_idle \o
       clear

init(status) ==
  Say("init") \o epd_init(status) \o
  IF status # 0 THEN <<>>
  ELSE reset \o wait_until_idle \o
       send_command(\h12) \o wait_until_idle \o
       send_command(\h21) \o send_data(\h40) \o send_data(\h00) \o
       send_command(\h3C) \o send_data(\h05) \o
       send_command(\h11) \o send_data(\h03) \o
       AddressWindow \o wait_until_idle \o
       clear

init_fast(status) ==
  Say("init_fast") \o epd_init(status) \o
  IF status # 0 THEN <<>>
  ELSE reset \o wait_until_idle \o
       send_command(\h12) \o wait_until_idle \o
       send_command(\h21) \o send_data(\h40) \o send_data(\h00) \o
       send_command(\h3C) \o send_data(\h05) \o
       send_command(\h1A) \o send_data(\h5A) \o
       send_command(\h22) \o send_data(\h91) \o
       send_command(\h20) \o wait_until_idle \o
       send_command(\h11) \o send_data(\h03) \o
       AddressWindow \o wait_until_idle

\* the value init and init_fast return: -1 after a failed bring-up, else None
InitReturn(status) == IF status # 0 THEN "-1" ELSE "None"

sleep == Say("sleep") \o send_command(\h10) \o send_data(\h01)

(***************************************************************************)
(* draw: merge, then one of the two display sequences.                     *)
(***************************************************************************)
\* variant of dispatch with the two branches exchanged
dispatch_swapped(partial, fb) ==
  IF partial THEN display_full(fb) ELSE display_partial(fb)

\* the if/else at the end of draw
dispatch(partial, fb) ==
  IF partial THEN display_partial(fb) ELSE display_full(fb)

\* one draw call on frame buffer fb: the new frame buffer and the log
draw(fb, partial, x, y, im) ==
  LET merged == set_frame_buffer(fb, x, y, im)
  IN [fb |-> merged,
      log |-> << <<"draw", <<x, y, im.w, im.h>>>> >> \o Say("set_frame_buffer") \o
              dispatch(partial, merged)]

(***************************************************************************)
(* fill: the tiles it draws, then the draws in order.                      *)
(***************************************************************************)
\* variant of fill_tiles without the last, shorter tile
fill_tiles_norem(color, fillsize) ==
  LET div == height \div fillsize
  IN [i \in 1 .. div |-> <<0, (i - 1) * fillsize, ImageNew(width, fillsize, color)>>]

\* the (x, y, image) of every draw call fill makes, in order
fill_tiles(color, fillsize) ==
  LET div == height \div fillsize
      rem == height % fillsize
  IN [i \in 1 .. div |-> <<0, (i - 1) * fillsize, ImageNew(width, fillsize, color)>>]
     \o (IF rem # 0 THEN << <<0, div * fillsize, ImageNew(width, rem, color)>> >>
         ELSE <<>>)

\* the loops of fill: the frame buffer and the log after the first n draw calls
\* of tiles, made one after the other, acc being the two before the first call
DrawAll(acc, partial, tiles, n) ==
  LET after[k \in 0 .. n] ==
        IF k = 0 THEN acc
        ELSE CHOOSE next \in
               {[fb |-> d.fb, log |-> a.log \o d.log] :
                  <<a, d>> \in {<<a, draw(a.fb, partial, t[1], t[2], t[3])>> :
                                 a \in {after[k - 1]}, t \in {tiles[k]}}} : TRUE
  IN after[n]

fill(fb, partial, color, fillsize) ==
  LET tiles == fill_tiles(color, fillsize)
  IN DrawAll([fb |-> fb, log |-> Say("fill")], partial, tiles, Len(tiles))

(***************************************************************************)
(* The controller side: what a log leaves in a RAM plane.                  *)
(***************************************************************************)
IsCmd(e, c) == e[1] = "cmd" /\ e[2] = <<c>>

\* positions of command c in a log
CmdAt(tr, c) == {i \in 1 .. Len(tr) : IsCmd(tr[i], c)}

RECURSIVE DataAfter(_, _)
\* the data bytes sent from position i up to the next command
DataAfter(tr, i) ==
  IF i > Len(tr) THEN <<>>
  ELSE IF tr[i][1] = "cmd" THEN <<>>
  ELSE IF tr[i][1] = "data" THEN tr[i][2] \o DataAfter(tr, i + 1)
  ELSE DataAfter(tr, i + 1)

Max(S) == CHOOSE m \in S : \A n \in S : n <= m

Min(S) == CHOOSE m \in S : \A n \in S : m <= n

\* the content of the RAM plane of opcode c after the log tr, old being its content before
RamAfter(tr, c, old) ==
  IF CmdAt(tr, c) = {} THEN old ELSE DataAfter(tr, Max(CmdAt(tr, c)) + 1)

(***************************************************************************)
(* Inputs.                                                                 *)
(***************************************************************************)
\* the statuses epd_init may return: 0 is success
Statuses == {0, -1}

\* the rectangles drawn, <<x, y, w, h>>, all inside the panel: inside one byte at
\* the origin, straddling two bytes on the last row, a whole byte at the origin,
\* two columns over all rows across a byte boundary, the bottom-right corner, and
\* the first byte of every row but the last
Rects ==
  {<<0, 0, 3, 1>>, <<7, height - 1, 3, 1>>, <<0, 0, 8, 1>>, <<7, 0, 2, height>>,
   <<width - 3, height - 1, 3, 1>>, <<0, 0, 8, height - 1>>}

\* the bitmaps of a given size: all black, all white, alternating
Bitmaps(w, h) == {ImageNew(w, h, 0), ImageNew(w, h, 255), ImageChecker(w, h)}

Colors == {0, 255}

FillSizes == 1 .. height + 1

NoImage == [w |-> 0, h |-> 0, px |-> <<>>]

(***************************************************************************)
(* The lines and the bus when nothing has been sent yet.  The calls of     *)
(* Spec run as a whole, one after the other, and leave these alone; the    *)
(* specification Pins below runs the calls step by step.                   *)
(***************************************************************************)
Threads == {1, 2}

Idle == [op |-> "idle", i |-> 0, k |-> 0]

NoReg == [op |-> 0, n |-> 0, by |-> 0]

NoXfer == [by |-> 0, as |-> "none", for |-> 0, dc |-> 0, cs |-> 0, before |-> NoReg]

WireAtRest ==
  /\ DC_PIN = 0
  /\ CS_PIN = 1
  /\ BUSY_PIN = 0
  /\ thread = [t \in Threads |-> Idle]
  /\ xfer = NoXfer
  /\ reg = NoReg
  /\ serial = TRUE
  /\ suspended = 0

(***************************************************************************)
(* The state after EPD4in2v2().                                            *)
(* partial_refresh and gray are not assigned before the first init; FALSE  *)
(* stands for that, and no action reads them before an init has set them.  *)
(***************************************************************************)
Init ==
  /\ frame_buffer = Repeat(\hFF, (width * height) \div 8)
  /\ partial_refresh = FALSE
  /\ gray = FALSE
  /\ state = "Uninitialized"
  /\ ram24 = <<>>
  /\ ram26 = <<>>
  /\ log = <<>>
  /\ call = [op |-> "__init__", args |-> <<>>, ret |-> "None"]
  /\ image_out = NoImage
  /\ ncalls = 0
  /\ WireAtRest

\* what every state-changing call does to the controller RAM and the bookkeeping
Emit(tr, c) ==
  /\ log' = tr
  /\ ram24' = RamAfter(tr, \h24, ram24)
  /\ ram26' = RamAfter(tr, \h26, ram26)
  /\ call' = c
  /\ image_out' = NoImage
  /\ ncalls' = ncalls + 1
  /\ UNCHANGED wire

DoInit(partial, g, status) ==
  /\ ncalls < MaxCalls
  /\ partial_refresh' = partial
  /\ gray' = g
  /\ state' = IF status = 0 THEN "Ready" ELSE state
  /\ Emit(init(status),
          [op |-> "init", args |-> <<partial, g, status>>, ret |-> InitReturn(status)])
  /\ UNCHANGED frame_buffer

DoInitFast(partial, g, status) ==
  /\ ncalls < MaxCalls
  /\ partial_refresh' = partial
  /\ gray' = g
  /\ state' = IF status = 0 THEN "Ready" ELSE state
  /\ Emit(init_fast(status),
          [op |-> "init_fast", args |-> <<partial, g, status>>,
           ret |-> InitReturn(status)])
  /\ UNCHANGED frame_buffer

DoClear ==
  /\ ncalls < MaxCalls
  /\ state # "Uninitialized"
  /\ Emit(clear, [op |-> "clear", args |-> <<>>, ret |-> "None"])
  /\ UNCHANGED <<frame_buffer, partial_refresh, gray, state>>

DoDraw(x, y, im) ==
  /\ ncalls < MaxCalls
  /\ state # "Uninitialized"
  /\ LET d == draw(frame_buffer, partial_refresh, x, y, im)
     IN /\ frame_buffer' = d.fb
        /\ Emit(d.log, [op |-> "draw", args |-> <<x, y, im>>, ret |-> "None"])
  /\ UNCHANGED <<partial_refresh, gray, state>>

DoFill(color, fillsize) ==
  /\ ncalls < MaxCalls
  /\ state # "Uninitialized"
  /\ LET f == fill(frame_buffer, partial_refresh, color, fillsize)
     IN /\ frame_buffer' = f.fb
        /\ Emit(f.log, [op |-> "fill", args |-> <<color, fillsize>>, ret |-> "None"])
  /\ UNCHANGED <<partial_refresh, gray, state>>

DoDisplayFull ==
  /\ ncalls < MaxCalls
  /\ state # "Uninitialized"
  /\ Emit(display_full(frame_buffer),
          [op |-> "display_full", args |-> <<>>, ret |-> "None"])
  /\ UNCHANGED <<frame_buffer, partial_refresh, gray, state>>

DoDisplayPartial ==
  /\ ncalls < MaxCalls
  /\ state # "Uninitialized"
  /\ Emit(display_partial(frame_buffer),
          [op |-> "display_partial", args |-> <<>>, ret |-> "None"])
  /\ UNCHANGED <<frame_buffer, partial_refresh, gray, state>>

DoSleep ==
  /\ ncalls < MaxCalls
  /\ state # "Uninitialized"
  /\ state' = "Sleeping"
  /\ Emit(sleep, [op |-> "sleep", args |-> <<>>, ret |-> "None"])
  /\ UNCHANGED <<frame_buffer, partial_refresh, gray>>

\* frame_buffer_to_image() called right after the last state-changing call
DoFrameBufferToImage ==
  /\ image_out = NoImage
  /\ image_out' = frame_buffer_to_image(frame_buffer)
  /\ UNCHANGED <<frame_buffer, partial_refresh, gray, state, ram24, ram26, log,
                 call, ncalls, wire>>

Next ==
  \/ \E partial \in BOOLEAN, g \in BOOLEAN, status \in Statuses :
       DoInit(partial, g, status)
  \/ \E partial \in BOOLEAN, g \in BOOLEAN, status \in Statuses :
       DoInitFast(partial, g, status)
  \/ DoClear
  \/ \E r \in Rects : \E im \in Bitmaps(r[3], r[4]) : DoDraw(r[1], r[2], im)
  \/ \E color \in Colors, fillsize \in FillSizes : DoFill(color, fillsize)
  \/ DoDisplayFull
  \/ DoDisplayPartial
  \/ DoSleep
  \/ DoFrameBufferToImage

Spec == Init /\ [][Next]_vars

(***************************************************************************)
(* The calls step by step.  Two threads use one driver that an init has    *)
(* brought up; each makes one call: clear, draw or sleep.  A step is one   *)
(* digital_write, spi_transfer, digital_read or delay_ms of send_command,  *)
(* send_data and wait_until_idle, and a thread switch may come between any *)
(* two steps.  The driver takes no lock; when serial is true the callers   *)
(* do, and a call starts only when no other call is running.  When serial  *)
(* is false the schedules followed are those with one preemption: a call   *)
(* is suspended at any step, the other thread makes its whole call, and    *)
(* the suspended call goes on.                                             *)
(* thread[t] is [op, i, k]: the method, the index i of the current         *)
(* send_command/send_data/wait_until_idle in the method, and the step k in *)
(* it.  For send_command and send_data: k = 0 before the write to DC_PIN,  *)
(* 1 before CS_PIN goes low, 2 .. before a transfer, last before CS_PIN    *)
(* goes high.  For wait_until_idle: k = 0 at the test of the while loop,   *)
(* 1 in its body, at delay_ms(20).                                         *)
(***************************************************************************)
\* stands for self.frame_buffer in send_data(self.frame_buffer): the list is read
\* byte by byte while it is sent
self_frame_buffer == <<-1>>

\* what a method puts on the lines: its send_command, send_data and wait_until_idle
\* calls in order (draw: after the merge)
Steps(op) ==
  LET body == CASE op = "clear" -> clear
                [] op = "sleep" -> sleep
                [] op = "draw" -> dispatch(partial_refresh, self_frame_buffer)
                [] OTHER -> <<>>
  IN SelectSeq(body, LAMBDA e : e[1] \in {"cmd", "data", "idle"})

Running(t) == thread[t].op \notin {"idle", "done"}

\* the send_command, send_data or wait_until_idle thread t is in
At(t) == Steps(thread[t].op)[thread[t].i]

\* the number of bytes a send_data transfers
DataLen(e) == IF e[2] = self_frame_buffer THEN Len(frame_buffer) ELSE Len(e[2])

\* the n-th byte a send_command or send_data transfers
DataByte(e, n) == IF e[2] = self_frame_buffer THEN frame_buffer[n] ELSE e[2][n]

\* the opcode of the last send_command of thread t up to where it is
LastCmd(t) ==
  LET p == Steps(thread[t].op)
  IN p[Max({j \in 1 .. thread[t].i : p[j][1] = "cmd"})][2][1]

\* variant of DC_level that leaves the line low for data too
DC_level_always_low(kind) == 0

\* the level send_command (GPIO.LOW) and send_data (GPIO.HIGH) write to DC_PIN
DC_level(kind) == IF kind = "cmd" THEN 0 ELSE 1

\* variant of wait_loop with an if in place of the while: one delay, then return
wait_loop_once(k, busy) == IF k = 0 THEN (IF busy = 1 THEN 1 ELSE -1) ELSE -1

\* the loop of wait_until_idle: from step k, with the level read from BUSY_PIN at
\* the test, the next step, or -1 to return
wait_loop(k, busy) == IF k = 0 THEN (IF busy = 1 THEN 1 ELSE -1) ELSE 0

\* thread t after the send_command, send_data or wait_until_idle it is in returns
Return(t) ==
  IF thread[t].i = Len(Steps(thread[t].op)) THEN [op |-> "done", i |-> 0, k |-> 0]
  ELSE [op |-> thread[t].op, i |-> thread[t].i + 1, k |-> 0]

\* the controller: a byte counts only while chip-select is low; with DC low it is
\* an opcode, with DC high a data byte of the opcode before
Decode(r, byte, dc, cs, t) ==
  IF cs # 0 THEN r
  ELSE IF dc = 0 THEN [op |-> byte, n |-> 0, by |-> t]
  ELSE [r EXCEPT !.n = @ + 1]

\* thread t may start a call: no call is running, or the callers do not serialize
\* and no call was preempted yet
MayStart(t) ==
  /\ thread[t] = Idle
  /\ \A u \in Threads \ {t} : Running(u) => (~serial /\ suspended = 0)

\* thread t is scheduled: the only other call running, if any, is the suspended one
Scheduled(t) ==
  /\ Running(t)
  /\ \A u \in Threads \ {t} : Running(u) => suspended = u

\* the thread a call of thread t preempts when it starts
Preempts(t) ==
  IF \E u \in Threads \ {t} : Running(u)
  THEN CHOOSE u \in Threads \ {t} : Running(u)
  ELSE suspended

\* a caller starts clear() or sleep()
StartCall(t, op) ==
  /\ MayStart(t)
  /\ thread' = [thread EXCEPT ![t] = [op |-> op, i |-> 1, k |-> 0]]
  /\ suspended' = Preempts(t)
  /\ UNCHANGED <<frame_buffer, partial_refresh, gray, state, ram24, ram26, log, call,
                 image_out, ncalls, DC_PIN, CS_PIN, BUSY_PIN, xfer, reg, serial>>

\* a caller starts draw(x, y, im): the merge, and then the display sequence
StartDraw(t, x, y, im) ==
  /\ MayStart(t)
  /\ frame_buffer' = set_frame_buffer(frame_buffer, x, y, im)
  /\ thread' = [thread EXCEPT ![t] = [op |-> "draw", i |-> 1, k |-> 0]]
  /\ suspended' = Preempts(t)
  /\ UNCHANGED <<partial_refresh, gray, state, ram24, ram26, log, call,
                 image_out, ncalls, DC_PIN, CS_PIN, BUSY_PIN, xfer, reg, serial>>

\* self.digital_write(self.DC_PIN, ...)
WriteDC(t) ==
  /\ Scheduled(t)
  /\ At(t)[1] \in {"cmd", "data"}
  /\ thread[t].k = 0
  /\ DC_PIN' = DC_level(At(t)[1])
  /\ thread' = [thread EXCEPT ![t].k = 1]
  /\ UNCHANGED <<frame_buffer, partial_refresh, gray, state, ram24, ram26, log, call,
                 image_out, ncalls, CS_PIN, BUSY_PIN, xfer, reg, serial, suspended>>

\* self.digital_write(self.CS_PIN, GPIO.LOW)
AssertCS(t) ==
  /\ Scheduled(t)
  /\ At(t)[1] \in {"cmd", "data"}
  /\ thread[t].k = 1
  /\ CS_PIN' = 0
  /\ thread' = [thread EXCEPT ![t].k = 2]
  /\ UNCHANGED <<frame_buffer, partial_refresh, gray, state, ram24, ram26, log, call,
                 image_out, ncalls, DC_PIN, BUSY_PIN, xfer, reg, serial, suspended>>

\* self.spi_transfer([...]): the one byte of send_command, the next byte of send_data
Transfer(t) ==
  /\ Scheduled(t)
  /\ At(t)[1] \in {"cmd", "data"}
  /\ thread[t].k >= 2
  /\ thread[t].k <= DataLen(At(t)) + 1
  /\ xfer' = [by |-> t, as |-> At(t)[1], for |-> LastCmd(t), dc |-> DC_PIN,
              cs |-> CS_PIN, before |-> reg]
  /\ reg' = Decode(reg, DataByte(At(t), thread[t].k - 1), DC_PIN, CS_PIN, t)
  /\ thread' = [thread EXCEPT ![t].k = @ + 1]
  /\ UNCHANGED <<frame_buffer, partial_refresh, gray, state, ram24, ram26, log, call,
                 image_out, ncalls, DC_PIN, CS_PIN, BUSY_PIN, serial, suspended>>

\* self.digital_write(self.CS_PIN, GPIO.HIGH), and the return
ReleaseCS(t) ==
  /\ Scheduled(t)
  /\ At(t)[1] \in {"cmd", "data"}
  /\ thread[t].k = DataLen(At(t)) + 2
  /\ CS_PIN' = 1
  /\ thread' = [thread EXCEPT ![t] = Return(t)]
  /\ UNCHANGED <<frame_buffer, partial_refresh, gray, state, ram24, ram26, log, call,
                 image_out, ncalls, DC_PIN, BUSY_PIN, xfer, reg, serial, suspended>>

\* while self.digital_read(self.BUSY_PIN) == 1
ReadBusy(t) ==
  /\ Scheduled(t)
  /\ At(t)[1] = "idle"
  /\ thread[t].k = 0
  /\ LET next == wait_loop(0, BUSY_PIN)
     IN thread' = [thread EXCEPT ![t] = IF next = -1 THEN Return(t)
                                        ELSE [@ EXCEPT !.k = next]]
  /\ UNCHANGED <<frame_buffer, partial_refresh, gray, state, ram24, ram26, log, call,
                 image_out, ncalls, DC_PIN, CS_PIN, BUSY_PIN, xfer, reg, serial, suspended>>

\* print("busy, waiting"); self.delay_ms(20), and back to the test
Delay(t) ==
  /\ Scheduled(t)
  /\ At(t)[1] = "idle"
  /\ thread[t].k = 1
  /\ LET next == wait_loop(1, BUSY_PIN)
     IN thread' = [thread EXCEPT ![t] = IF next = -1 THEN Return(t)
                                        ELSE [@ EXCEPT !.k = next]]
  /\ UNCHANGED <<frame_buffer, partial_refresh, gray, state, ram24, ram26, log, call,
                 image_out, ncalls, DC_PIN, CS_PIN, BUSY_PIN, xfer, reg, serial, suspended>>

\* the controller starts an operation
BusyRise ==
  /\ BUSY_PIN = 0
  /\ BUSY_PIN' = 1
  /\ UNCHANGED <<frame_buffer, partial_refresh, gray, state, ram24, ram26, log, call,
                 image_out, ncalls, DC_PIN, CS_PIN, thread, xfer, reg, serial, suspended>>

\* the controller ends an operation
BusyFall ==
  /\ BUSY_PIN = 1
  /\ BUSY_PIN' = 0
  /\ UNCHANGED <<frame_buffer, partial_refresh, gray, state, ram24, ram26, log, call,
                 image_out, ncalls, DC_PIN, CS_PIN, thread, xfer, reg, serial, suspended>>

\* the bitmaps the threads draw, at <<x, y>>
ThreadDraws == {<<0, 0, ImageNew(3, 1, 0)>>}

\* the driver after init(partial, gray = False) succeeded, with the callers' way of
\* calling still to choose
InitPins ==
  /\ frame_buffer = Repeat(\hFF, (width * height) \div 8)
  /\ partial_refresh \in BOOLEAN
  /\ gray = FALSE
  /\ state = "Ready"
  /\ ram24 = Repeat(\hFF, height * linewidth)
  /\ ram26 = Repeat(\hFF, height * linewidth)
  /\ log = init(0)
  /\ call = [op |-> "init", args |-> <<partial_refresh, FALSE, 0>>, ret |-> "None"]
  /\ image_out = NoImage
  /\ ncalls = 1
  /\ DC_PIN = 0
  /\ CS_PIN = 1
  /\ BUSY_PIN = 0
  /\ thread = [t \in Threads |-> Idle]
  /\ xfer = NoXfer
  /\ reg = NoReg
  /\ serial \in BOOLEAN
  /\ suspended = 0

\* a step of a running call of thread t
ThreadStep(t) ==
  \/ WriteDC(t)
  \/ AssertCS(t)
  \/ Transfer(t)
  \/ ReleaseCS(t)
  \/ ReadBusy(t)
  \/ Delay(t)

NextPins ==
  \/ \E t \in Threads : \E op \in {"clear", "sleep"} : StartCall(t, op)
  \/ \E t \in Threads : \E d \in ThreadDraws : StartDraw(t, d[1], d[2], d[3])
  \/ \E t \in Threads : ThreadStep(t)
  \/ BusyRise
  \/ BusyFall

Pins == InitPins /\ [][NextPins]_vars

\* the calls made one at a time, each running call being scheduled again and again:
\* a Python thread that is not blocked keeps running, and digital_read, delay_ms and
\* spi_transfer all return
InitWaits == InitPins /\ serial

Waits == InitWaits /\ [][NextPins]_vars /\ \A t \in Threads : WF_vars(ThreadStep(t))

(***************************************************************************)
(* Reading a log.                                                          *)
(***************************************************************************)
\* positions of the console line of method name
PrintAt(tr, name) == {i \in 1 .. Len(tr) : tr[i][1] = "print" /\ tr[i][2] = <<name>>}

\* positions of events of a kind
KindAt(tr, kind) == {i \in 1 .. Len(tr) : tr[i][1] = kind}

\* the first position after i holding command c, or 0
NextCmd(tr, i, c) ==
  IF \E k \in CmdAt(tr, c) : k > i THEN Min({k \in CmdAt(tr, c) : k > i}) ELSE 0

\* the last state-changing call was op and frame_buffer_to_image() was called after it
ReadBackAfter(op) == image_out.w # 0 /\ call.op = op

AllWhite == Repeat(\hFF, (width * height) \div 8)

(***************************************************************************)
(* C1  Round trip: after set_frame_buffer(x, y, B), here as the merge of   *)
(* draw(x, y, B), on any frame buffer reached before, the image that       *)
(* frame_buffer_to_image() returns has a non-zero pixel at (x+i, y+j)      *)
(* exactly when B's pixel (i, j) is non-zero, for every (i, j) of B.       *)
(***************************************************************************)
C1_RoundTrip ==
  ReadBackAfter("draw") =>
    LET x == call.args[1]
        y == call.args[2]
        B == call.args[3]
    IN \A i \in 0 .. B.w - 1, j \in 0 .. B.h - 1 :
         (image_out.px[<<x + i, y + j>>] # 0) <=> (B.px[<<i, j>>] # 0)

\* an alternating bitmap merged across a byte boundary over a byte that an earlier
\* draw had made black: one bit is set again, the bit next to it is cleared
C1_Witness ==
  /\ ReadBackAfter("draw")
  /\ call.args = <<7, 0, ImageChecker(2, height)>>
  /\ frame_buffer[1] = \h01
  /\ frame_buffer[2] = \h7F

(***************************************************************************)
(* C2  Clear idempotence: clear() followed by frame_buffer_to_image()      *)
(* yields a width x height image in which every pixel is white: every byte *)
(* of the frame buffer is 0xFF.                                            *)
(***************************************************************************)
C2_ClearThenImageIsWhite ==
  ReadBackAfter("clear") =>
    /\ image_out.w = width /\ image_out.h = height
    /\ \A p \in (0 .. width - 1) \X (0 .. height - 1) : image_out.px[p] # 0
    /\ frame_buffer = AllWhite

(***************************************************************************)
(* C3  Mirror invariant: after every completed init, clear, draw or fill   *)
(* the frame buffer equals the bytes last written to the primary RAM plane *)
(* (opcode 0x24).                                                          *)
(***************************************************************************)
C3_MirrorEqualsPrimaryRam ==
  (call.op \in {"init", "clear", "draw", "fill"} /\ call.ret = "None") =>
    frame_buffer = ram24

(***************************************************************************)
(* C4  Dispatch: a draw call merges the bitmap, then runs display_partial  *)
(* if partial_refresh is true and display_full otherwise: exactly one of   *)
(* the two runs, once, and the merge comes before the first RAM write,     *)
(* which carries the merged frame buffer.                                  *)
(***************************************************************************)
C4_DrawDispatch ==
  call.op = "draw" =>
    LET partial == PrintAt(log, "display partial")
        full == PrintAt(log, "display_full")
        merge == PrintAt(log, "set_frame_buffer")
        x == call.args[1]
        y == call.args[2]
        B == call.args[3]
        mirror == frame_buffer_to_image(frame_buffer)
    IN /\ Cardinality(partial) = (IF partial_refresh THEN 1 ELSE 0)
       /\ Cardinality(full) = (IF partial_refresh THEN 0 ELSE 1)
       /\ (CmdAt(log, \h26) # {}) <=> ~partial_refresh
       /\ (CmdAt(log, \h44) # {}) <=> partial_refresh
       /\ Cardinality(merge) = 1
       /\ CmdAt(log, \h24) # {}
       /\ \A m \in merge : \A d \in partial \cup full : m < d
       /\ \A m \in merge : \A c \in CmdAt(log, \h24) \cup CmdAt(log, \h26) : m < c
       /\ DataAfter(log, Min(CmdAt(log, \h24)) + 1) = frame_buffer
       /\ \A i \in 0 .. B.w - 1, j \in 0 .. B.h - 1 :
            (mirror.px[<<x + i, y + j>>] # 0) <=> (B.px[<<i, j>>] # 0)

\* the third call is a draw in full mode that leaves a frame buffer with black pixels
C4_Witness ==
  /\ call.op = "draw"
  /\ ~partial_refresh
  /\ ncalls = 3
  /\ PrintAt(log, "display_full") # {}
  /\ frame_buffer # AllWhite

(***************************************************************************)
(* C5  Plane duplication: every display_full run sends, right after it     *)
(* starts, opcode 0x24 with one data frame and opcode 0x26 with one data   *)
(* frame, the two byte-identical and as long as the frame buffer, before   *)
(* the update-activate command 0x20; the last run of a call sends the      *)
(* frame buffer the call leaves.                                           *)
(***************************************************************************)
C5_FullWritesBothPlanes ==
  \A i \in PrintAt(log, "display_full") :
    /\ i + 4 <= Len(log)
    /\ IsCmd(log[i + 1], \h24)
    /\ log[i + 2][1] = "data"
    /\ IsCmd(log[i + 3], \h26)
    /\ log[i + 4][1] = "data"
    /\ log[i + 2][2] = log[i + 4][2]
    /\ Len(log[i + 2][2]) = Len(frame_buffer)
    /\ NextCmd(log, i, \h20) > i + 4
    /\ (i = Max(PrintAt(log, "display_full")) => log[i + 2][2] = frame_buffer)

\* a fill in full mode: several display_full runs in one call, the last one black
C5_Witness ==
  /\ call.op = "fill"
  /\ Cardinality(PrintAt(log, "display_full")) >= 2
  /\ frame_buffer = Repeat(0, (width * height) \div 8)

(***************************************************************************)
(* C6  Single-plane write: every display_partial run, from its start to    *)
(* its update-activate command 0x20, sends opcode 0x24 exactly once and    *)
(* never opcode 0x26, and sends 0x44, 0x45, 0x4E, 0x4F once each, in that  *)
(* order, before the 0x24.                                                 *)
(***************************************************************************)
C6_PartialWritesPrimaryOnly ==
  \A i \in PrintAt(log, "display partial") :
    LET e == NextCmd(log, i, \h20)
        In(c) == {k \in CmdAt(log, c) : i < k /\ k < e}
    IN /\ e > i
       /\ Cardinality(In(\h24)) = 1
       /\ In(\h26) = {}
       /\ \A c \in {\h44, \h45, \h4E, \h4F} : Cardinality(In(c)) = 1
       /\ \A a \in In(\h44), b \in In(\h45), c \in In(\h4E), d \in In(\h4F),
            w \in In(\h24) : a < b /\ b < c /\ c < d /\ d < w

\* a fill in partial mode: several display_partial runs in one call
C6_Witness ==
  /\ call.op = "fill"
  /\ partial_refresh
  /\ Cardinality(PrintAt(log, "display partial")) >= 2

(***************************************************************************)
(* C7  Fill tiling: fill(color, t) with t >= 1 makes ceil(height / t) draw *)
(* calls, all at x = 0 over the full width; the first height \div t have   *)
(* height t at y = 0, t, 2t, ..., and a last one of height height % t at   *)
(* y = (height \div t) * t is made only when height % t is not 0; every    *)
(* row of the panel lies in exactly one drawn tile, and afterwards every   *)
(* pixel of the frame buffer has the fill colour.                          *)
(***************************************************************************)
C7_FillTiling ==
  call.op = "fill" =>
    LET color == call.args[1]
        t == call.args[2]
        div == height \div t
        rem == height % t
        D == SelectSeq(log, LAMBDA e : e[1] = "draw")
        Y(n) == D[n][2][2]
        H(n) == D[n][2][4]
        mirror == frame_buffer_to_image(frame_buffer)
    IN /\ Len(D) = (height + t - 1) \div t
       /\ Len(D) = div + (IF rem # 0 THEN 1 ELSE 0)
       /\ \A n \in 1 .. Len(D) :
            /\ D[n][2][1] = 0
            /\ D[n][2][3] = width
            /\ Y(n) = (n - 1) * t
            /\ H(n) = (IF n <= div THEN t ELSE rem)
       /\ \A r \in 0 .. height - 1 :
            Cardinality({n \in 1 .. Len(D) : Y(n) <= r /\ r < Y(n) + H(n)}) = 1
       /\ \A n \in 1 .. Len(D) : Y(n) >= 0 /\ H(n) >= 1 /\ Y(n) + H(n) <= height
       /\ \A p \in (0 .. width - 1) \X (0 .. height - 1) :
            (mirror.px[p] # 0) <=> (color # 0)

\* a black fill with a tile height that does not divide the panel height: a full
\* tile and a shorter last one, over a frame buffer that was all white
C7_Witness ==
  /\ call.op = "fill"
  /\ call.args = <<0, 2>>
  /\ height % 2 # 0
  /\ Cardinality(KindAt(log, "draw")) = 2
  /\ frame_buffer = Repeat(0, (width * height) \div 8)

(***************************************************************************)
(* C8  Sleep transition: sleep() sends opcode 0x10 with one data byte and  *)
(* leaves the device Sleeping; a draw or clear call made while Sleeping is *)
(* rejected: it sends no command and no data and leaves the frame buffer   *)
(* as it was.                                                              *)
(***************************************************************************)
C8_SleepThenRejected ==
  [][ncalls' # ncalls =>
        /\ call'.op = "sleep" =>
             /\ state' = "Sleeping"
             /\ Cardinality(CmdAt(log', \h10)) = 1
             /\ \A i \in CmdAt(log', \h10) : Len(DataAfter(log', i + 1)) = 1
        /\ (state = "Sleeping" /\ call'.op \in {"draw", "clear"}) =>
             /\ KindAt(log', "cmd") = {}
             /\ KindAt(log', "data") = {}
             /\ frame_buffer' = frame_buffer]_vars

(***************************************************************************)
(* C9  Initialization ends with a clear: when the bring-up succeeds, init  *)
(* and init_fast both run clear() after their last configuration command   *)
(* (0x4F), so the call writes height * ceil(width/8) bytes of 0xFF to both *)
(* RAM planes and then activates an update with the full waveform 0xF7.    *)
(***************************************************************************)
C9_InitEndsWithClear ==
  (call.op \in {"init", "init_fast"} /\ call.args[3] = 0) =>
    /\ PrintAt(log, "clear") # {}
    /\ \A c \in {\h24, \h26} :
         /\ Cardinality(CmdAt(log, c)) = 1
         /\ \A i \in CmdAt(log, c) :
              /\ i > Max(CmdAt(log, \h4F))
              /\ DataAfter(log, i + 1) = Repeat(\hFF, height * linewidth)
    /\ LET last22 == Max(CmdAt(log, \h22))
       IN /\ last22 > Max(CmdAt(log, \h26))
          /\ DataAfter(log, last22 + 1) = <<\hF7>>
          /\ NextCmd(log, last22, \h20) > last22

(***************************************************************************)
(* C10  Init failure: when epd_init returns a non-zero status, init and    *)
(* init_fast return -1 after that single bring-up attempt; nothing follows *)
(* it (no reset pulse, delay, command, data or busy poll), and the frame   *)
(* buffer and both RAM planes are left as they were.                       *)
(***************************************************************************)
C10_InitFailureAborts ==
  [][(ncalls' # ncalls /\ call'.op \in {"init", "init_fast"} /\ call'.args[3] # 0) =>
        /\ call'.ret = "-1"
        /\ Cardinality(KindAt(log', "epd_init")) = 1
        /\ log'[Len(log')][1] = "epd_init"
        /\ \A k \in {"rst", "delay", "cmd", "data", "idle"} : KindAt(log', k) = {}
        /\ frame_buffer' = frame_buffer
        /\ ram24' = ram24 /\ ram26' = ram26]_vars

\* a failed init_fast on a device that was initialized and drawn on before
C10_Witness ==
  /\ call.op = "init_fast"
  /\ call.ret = "-1"
  /\ state = "Ready"
  /\ frame_buffer # AllWhite
  /\ ram24 = frame_buffer

C12_RefreshModeSelection ==
  [][(/\ call.op \in {"init", "init_fast"}
      /\ call.ret = "None"
      /\ ncalls' # ncalls
      /\ call'.op = "draw") =>
       LET waveform ==
             IF call.op = "init" /\ ~partial_refresh /\ ~gray THEN {\hF7}
             ELSE IF call.op = "init_fast" /\ ~partial_refresh /\ ~gray THEN {\hC7}
             ELSE IF call.op = "init" /\ partial_refresh /\ ~gray THEN {\hFF}
             ELSE IF call.op = "init" /\ ~partial_refresh /\ gray THEN {\hCF}
             ELSE {\hF7, \hC7, \hFF, \hCF}
       IN /\ CmdAt(log', \h22) # {}
          /\ \A i \in CmdAt(log', \h22) :
               /\ Len(DataAfter(log', i + 1)) = 1
               /\ DataAfter(log', i + 1)[1] \in waveform]_vars

(***************************************************************************)
(* C13  Register protocol arity: in what any call puts on the bus, no data *)
(* byte comes before the first command, and every command is followed,     *)
(* before the next command, by exactly the number of data bytes of the     *)
(* register table: 0x12 and 0x20 none; 0x3C, 0x11, 0x4E, 0x22, 0x1A, 0x10  *)
(* one; 0x21, 0x44, 0x4F two; 0x45 four; 0x24 and 0x26 height *            *)
(* ceil(width/8).  Every call so begins with a command and ends with a     *)
(* complete register write, so the same holds of the stream of a sequence  *)
(* of calls.                                                               *)
(***************************************************************************)
C13_RegisterArity ==
  LET plane == height * ((width + 7) \div 8)
      Arity(c) ==
        CASE c \in {\h12, \h20} -> 0
          [] c \in {\h3C, \h11, \h4E, \h22, \h1A, \h10} -> 1
          [] c \in {\h21, \h44, \h4F} -> 2
          [] c = \h45 -> 4
          [] c \in {\h24, \h26} -> plane
          [] OTHER -> -1
  IN /\ \A d \in KindAt(log, "data") : \E c \in KindAt(log, "cmd") : c < d
     /\ \A i \in KindAt(log, "cmd") :
          /\ Len(log[i][2]) = 1
          /\ Len(DataAfter(log, i + 1)) = Arity(log[i][2][1])

\* a bring-up that succeeded: its log holds twelve of the fourteen registers, both
\* RAM planes among them
C13_Witness ==
  /\ call.op = "init"
  /\ call.ret = "None"
  /\ {log[i][2][1] : i \in KindAt(log, "cmd")} =
       {\h12, \h21, \h3C, \h11, \h44, \h45, \h4E, \h4F, \h24, \h26, \h22, \h20}

(***************************************************************************)
(* Reading the lines during a call.                                        *)
(***************************************************************************)
\* thread t is inside send_command or send_data, between the write that asserts
\* chip-select and the write that deasserts it
InFrame(t) == Running(t) /\ At(t)[1] \in {"cmd", "data"} /\ thread[t].k >= 2

\* thread t is inside wait_until_idle
Waiting(t) == Running(t) /\ At(t)[1] = "idle"

(***************************************************************************)
(* C14  Command/data framing, for calls made one at a time: every byte is  *)
(* transferred while chip-select is low, with the mode-select line low for *)
(* the byte of send_command and high for every byte of send_data;          *)
(* send_command transfers exactly one byte; chip-select is low only inside *)
(* a frame, so it is high whenever send_command or send_data has returned  *)
(* and between any two frames.                                             *)
(***************************************************************************)
C14_Framing ==
  serial =>
    /\ xfer.as # "none" =>
         /\ xfer.cs = 0
         /\ xfer.dc = (IF xfer.as = "cmd" THEN 0 ELSE 1)
    /\ \A t \in Threads :
         (Running(t) /\ At(t)[1] = "cmd") =>
           /\ DataLen(At(t)) = 1
           /\ thread[t].k <= 3
    /\ (CS_PIN = 0) <=> (\E t \in Threads : InFrame(t))
    /\ \A t \in Threads : InFrame(t) => DC_PIN = (IF At(t)[1] = "cmd" THEN 0 ELSE 1)

\* a draw, called alone, has sent the last byte of the frame buffer: chip-select is
\* still low, the mode-select line high, and the command before it was 0x24 or 0x26
C14_Witness ==
  /\ serial
  /\ \E t \in Threads :
       /\ thread[t].op = "draw"
       /\ At(t)[2] = self_frame_buffer
       /\ thread[t].k = Len(frame_buffer) + 2
       /\ xfer = [by |-> t, as |-> "data", for |-> LastCmd(t), dc |-> 1, cs |-> 0,
                  before |-> [op |-> LastCmd(t), n |-> Len(frame_buffer) - 1, by |-> t]]
       /\ CS_PIN = 0

(***************************************************************************)
(* C15  Busy-wait gate.  wait_until_idle returns only from the test of its *)
(* loop and only when BUSY_PIN reads not busy there; a busy reading is     *)
(* followed by one delay_ms(20) and then by the next reading; if from some *)
(* time on the line reads not busy, every wait_until_idle returns; and if  *)
(* the line stays busy for ever, a wait_until_idle that has begun never    *)
(* returns: there is no other way out of the loop.                         *)
(***************************************************************************)
C15_BusyWaitGate ==
  /\ [][\A t \in Threads :
          (Waiting(t) /\ thread'[t] # thread[t]) =>
            /\ thread[t].k = 0 =>
                  IF BUSY_PIN = 1 THEN Waiting(t)' /\ thread'[t].k = 1
                  ELSE ~Waiting(t)'
            /\ thread[t].k = 1 => Waiting(t)' /\ thread'[t].k = 0]_vars
  /\ \A t \in Threads : (<>[](BUSY_PIN = 0)) => [](Waiting(t) => <>~Waiting(t))
  /\ \A t \in Threads : []((Waiting(t) /\ [](BUSY_PIN = 1)) => []Waiting(t))

\* a wait_until_idle that read the line busy and is in its delay, the line still busy
C15_Witness ==
  \E t \in Threads :
    /\ Waiting(t)
    /\ thread[t].k = 1
    /\ BUSY_PIN = 1
    /\ reg.op = \h20

(***************************************************************************)
(* C16  Initialization ordering: when the bring-up succeeds, init and      *)
(* init_fast pulse the reset line (high, low, high) and wait until idle    *)
(* before the first command; the first commands of init are 0x12, 0x21,    *)
(* 0x3C, 0x11, 0x44, 0x45, 0x4E, 0x4F in this order, so no RAM write       *)
(* (0x24, 0x26) and no activation (0x20) comes before 0x4F; the commands   *)
(* of init_fast are the same with 0x1A, 0x22, 0x20 between 0x3C and 0x11,  *)
(* and a wait until idle between that 0x20 and 0x11.                       *)
(***************************************************************************)
C16_InitOrdering ==
  (call.op \in {"init", "init_fast"} /\ call.ret = "None") =>
    LET cmds == SelectSeq(log, LAMBDA e : e[1] = "cmd")
        ops == [n \in 1 .. Len(cmds) |-> cmds[n][2][1]]
        first == Min(KindAt(log, "cmd"))
        rsts == SelectSeq(SubSeq(log, 1, first - 1), LAMBDA e : e[1] = "rst")
        head == <<\h12, \h21, \h3C>>
        extra == <<\h1A, \h22, \h20>>
        rest == <<\h11, \h44, \h45, \h4E, \h4F>>
        idles == KindAt(log, "idle")
    IN /\ KindAt(log, "rst") # {}
       /\ \A r \in KindAt(log, "rst") : r < first
       /\ [n \in 1 .. Len(rsts) |-> rsts[n][2][1]] = <<1, 0, 1>>
       /\ \E w \in idles : Max(KindAt(log, "rst")) < w /\ w < first
       /\ call.op = "init" =>
            /\ Len(ops) >= 8
            /\ SubSeq(ops, 1, 8) = head \o rest
            /\ \A c \in CmdAt(log, \h24) \cup CmdAt(log, \h26) \cup CmdAt(log, \h20) :
                 c > Min(CmdAt(log, \h4F))
       /\ call.op = "init_fast" =>
            /\ ops = head \o extra \o rest
            /\ \E w \in idles : Min(CmdAt(log, \h20)) < w /\ w < Min(CmdAt(log, \h11))
            /\ Cardinality(idles) = 4

\* an init_fast that succeeds on a driver that an init had brought up before
C16_Witness ==
  /\ call.op = "init_fast"
  /\ call.ret = "None"
  /\ ncalls = 2
  /\ ram24 = AllWhite
  /\ Cardinality(CmdAt(log, \h20)) = 1

(***************************************************************************)
(* C17  Activation gating: every activation (opcode 0x20) comes right      *)
(* after opcode 0x22 and its one data byte, and every 0x22 is followed by  *)
(* a 0x20; after a 0x20 the next thing on the lines is a wait_until_idle   *)
(* that returned, so no command and no data byte is sent before BUSY_PIN   *)
(* has been read not busy; every run of clear, display_full and            *)
(* display_partial writes its RAM planes, all of them before its 0x22, and *)
(* activates once, with waveform 0xF7 (clear, display_full) or 0xFF        *)
(* (display_partial).                                                      *)
(***************************************************************************)
C17_ActivationGating ==
  LET bus == {"cmd", "data", "idle"}
      runs == PrintAt(log, "clear") \cup PrintAt(log, "display_full")
                \cup PrintAt(log, "display partial")
      \* the end of the run that starts at p: the start of the next run, or of the log
      End(p) == IF \E q \in runs : q > p THEN Min({q \in runs : q > p})
                ELSE Len(log) + 1
      Ram(p) == {c \in CmdAt(log, \h24) \cup CmdAt(log, \h26) : p < c /\ c < End(p)}
      Act(p) == {c \in CmdAt(log, \h20) : p < c /\ c < End(p)}
  IN /\ \A i \in CmdAt(log, \h20) :
          /\ i >= 3
          /\ IsCmd(log[i - 2], \h22)
          /\ log[i - 1][1] = "data" /\ Len(log[i - 1][2]) = 1
          /\ \E w \in KindAt(log, "idle") :
               /\ w > i
               /\ \A j \in i + 1 .. w - 1 : log[j][1] \notin bus
     /\ \A i \in CmdAt(log, \h22) : i + 2 <= Len(log) /\ IsCmd(log[i + 2], \h20)
     /\ \A p \in runs :
          /\ Cardinality(Act(p)) = 1
          /\ Ram(p) # {}
          /\ \A a \in Act(p) :
               /\ \A c \in Ram(p) : c < a - 2
               /\ log[a - 1][2] = (IF log[p][2] = <<"display partial">> THEN <<\hFF>>
                                    ELSE <<\hF7>>)

\* a fill in full mode that activates three times or more in one call
C17_Witness ==
  /\ call.op = "fill"
  /\ ~partial_refresh
  /\ Cardinality(CmdAt(log, \h20)) >= 3
  /\ Cardinality(KindAt(log, "idle")) = Cardinality(CmdAt(log, \h20))

(***************************************************************************)
(* C18  Address window: on the 400 x 300 panel of the driver, every 0x44   *)
(* carries X start 0 and X end ceil(width/8) - 1 (0x00, 0x31), every 0x45  *)
(* carries Y start 0 and Y end height - 1, low byte first (0x00, 0x00,     *)
(* 0x2B, 0x01), every 0x4E and 0x4F sets its counter to 0, and the window  *)
(* holds height * ceil(width/8) bytes, the length of a RAM write, exactly  *)
(* once; a bring-up that succeeds and every run of display_partial send    *)
(* the four of them before any RAM write.                                  *)
(***************************************************************************)
C18_AddressWindow ==
  LET linebytes == (PanelWidth + 7) \div 8
      Data(i) == DataAfter(log, i + 1)
      Word(lo, hi) == lo + 256 * hi
      configs == (IF call.op \in {"init", "init_fast"} /\ call.ret = "None"
                  THEN {1} ELSE {}) \cup PrintAt(log, "display partial")
  IN /\ \A i \in CmdAt(log, \h44) : Data(i) = <<0, linebytes - 1>>
     /\ \A i \in CmdAt(log, \h45) :
          /\ Data(i) = <<0, 0, (PanelHeight - 1) % 256, (PanelHeight - 1) \div 256>>
          /\ Word(Data(i)[1], Data(i)[2]) = 0
          /\ Word(Data(i)[3], Data(i)[4]) = PanelHeight - 1
     /\ \A i \in CmdAt(log, \h4E) : Data(i) = <<0>>
     /\ \A i \in CmdAt(log, \h4F) : Data(i) = <<0, 0>>
     /\ \A i \in CmdAt(log, \h44), j \in CmdAt(log, \h45) :
          (Data(i)[2] - Data(i)[1] + 1)
            * (Word(Data(j)[3], Data(j)[4]) - Word(Data(j)[1], Data(j)[2]) + 1)
          = PanelHeight * linebytes
     /\ (PanelWidth * PanelHeight) \div 8 = PanelHeight * linebytes
     /\ \A p \in configs :
          \A c \in {\h44, \h45, \h4E, \h4F} :
            /\ NextCmd(log, p, c) > p
            /\ \A r \in {\h24, \h26} :
                 NextCmd(log, p, r) # 0 => NextCmd(log, p, c) < NextCmd(log, p, r)

\* display_partial() called directly on a driver brought up in full mode
C18_Witness ==
  /\ call.op = "display_partial"
  /\ ~partial_refresh
  /\ Cardinality(CmdAt(log, \h44)) = 1
  /\ Cardinality(CmdAt(log, \h45)) = 1
  /\ \A i \in CmdAt(log, \h45) : DataAfter(log, i + 1) = <<0, 0, \h2B, \h01>>

(***************************************************************************)
(* C19  Merge frame effect: the merge of draw(x, y, B), with the rectangle *)
(* inside the panel, leaves every bit of the frame buffer whose pixel lies *)
(* outside [x, x + B.w) x [y, y + B.h) as it was, the other bits of the    *)
(* bytes the rectangle covers in part included, and leaves the length of   *)
(* the frame buffer at width * height / 8.                                 *)
(***************************************************************************)
C19_MergeFrame ==
  [][(ncalls' # ncalls /\ call'.op = "draw") =>
        LET x == call'.args[1]
            y == call'.args[2]
            B == call'.args[3]
            old == frame_buffer_to_image(frame_buffer)
            new == frame_buffer_to_image(frame_buffer')
            Inside(p) == /\ x <= p[1] /\ p[1] < x + B.w
                         /\ y <= p[2] /\ p[2] < y + B.h
        IN /\ Len(frame_buffer') = (width * height) \div 8
           /\ Len(frame_buffer') = Len(frame_buffer)
           /\ \A p \in (0 .. width - 1) \X (0 .. height - 1) :
                ~Inside(p) => new.px[p] = old.px[p]]_vars

\* a black bitmap three pixels wide merged across a byte boundary of the last row
\* of a white frame buffer: one bit of the first byte and two of the second change
C19_Witness ==
  /\ call.op = "draw"
  /\ call.args = <<7, height - 1, ImageNew(3, 1, 0)>>
  /\ frame_buffer[(height - 1) * linewidth + 1] = \hFE
  /\ frame_buffer[(height - 1) * linewidth + 2] = \h3F
  /\ \A k \in 1 .. (height - 1) * linewidth : frame_buffer[k] = \hFF

(***************************************************************************)
(* C20  No internal locking.  With the calls serialized by the callers,    *)
(* every data byte reaches the controller while it is in the opcode the    *)
(* sending call sent last, no other call's opcode having come in between,  *)
(* and whenever a command ends a RAM plane write the plane has received    *)
(* height * ceil(width/8) bytes.  Without serialization the driver does    *)
(* nothing to keep this: the witness is a state in which a call's data     *)
(* byte arrives after the command of another call and is taken as data of  *)
(* that other opcode.                                                      *)
(***************************************************************************)
C20_SerializedCallsKeepFrames ==
  serial =>
    /\ xfer.as = "data" =>
         /\ xfer.before.by = xfer.by
         /\ xfer.before.op = xfer.for
    /\ (xfer.as = "cmd" /\ xfer.before.op \in {\h24, \h26}) =>
         xfer.before.n = height * linewidth
    /\ suspended = 0

\* two unserialized calls: the suspended call sent 0x24 before it was preempted (its
\* last command) and now sends a byte of its plane, which the controller takes as
\* data of the opcode the other call sent last
C20_Witness ==
  /\ ~serial
  /\ suspended # 0
  /\ xfer.as = "data"
  /\ xfer.by = suspended
  /\ xfer.for = \h24
  /\ xfer.cs = 0 /\ xfer.dc = 1
  /\ xfer.before.by # xfer.by
  /\ xfer.before.op # xfer.for

====
